---- MODULE Spec2Model ----
(***************************************************************************)
(* Model of shinysdr/plugins/flightradar24/__init__.py: the polling        *)
(* client _Flightradar24Client (enable/disable of a twisted LoopingCall,   *)
(* one HTTP GET per tick, dispatch of the parsed response to the attached  *)
(* device contexts) and the telemetry object Aircraft (merge of one feed   *)
(* record, interestingness, expiry).                                       *)
(*                                                                         *)
(* Python values are modelled as records [t, n, d, s]: t is the type tag   *)
(* ("null" for None, "num" for a number n/d kept in lowest terms, "str"    *)
(* for a string s).  Feed records are sequences of such values; raw index  *)
(* i of the source is element i+1 of the sequence.                         *)
(***************************************************************************)
EXTENDS Integers, Sequences, FiniteSets, TLC

\* ------------------------------------------------------------ bounds
\* LoopingCall objects that set_enabled(True) may create in one behaviour.
MaxLoops == 2
\* Device contexts that may be attached.
MaxContexts == 2
\* HTTP requests that may be issued in one behaviour.
MaxRequests == 3
\* Records one Aircraft may merge in one behaviour of AircraftSpec.
MaxMerges == 3

\* ------------------------------------------------------------ values
Abs(x) == IF x < 0 THEN -x ELSE x

RECURSIVE GCD(_, _)
GCD(a, b) == IF b = 0 THEN a ELSE GCD(b, a % b)

None == [t |-> "null", n |-> 0, d |-> 1, s |-> ""]
Num(a, b) ==
    LET g == GCD(Abs(a), b)
    IN  [t |-> "num", n |-> a \div g, d |-> b \div g, s |-> ""]
Int2(a) == Num(a, 1)
Str(x) == [t |-> "str", n |-> 0, d |-> 1, s |-> x]

\* Python truth value of a JSON scalar: None, 0 and "" are false.
Truthy(v) ==
    CASE v.t = "null" -> FALSE
      [] v.t = "num" -> v.n # 0
      [] v.t = "str" -> v.s # ""

\* x * y for a float constant y; defined for numbers only (Python raises
\* TypeError for a str or None operand).
CanMul(v) == v.t = "num"
Mul(v, c) == Num(v.n * c.n, v.d * c.d)
Div(v, c) == Num(v.n * c.d, v.d * c.n)
Add(v, c) == Num(v.n * c.d + c.n * v.d, v.d * c.d)

\* ------------------------------------------------------------ constants
_POLLING_INTERVAL == 8
drop_unheard_timeout_seconds == 60
_SECONDS_PER_HOUR == Int2(60 * 60)
_METERS_PER_NAUTICAL_MILE == Int2(1852)
_KNOTS_TO_METERS_PER_SECOND == Div(_METERS_PER_NAUTICAL_MILE, _SECONDS_PER_HOUR)
_CM_PER_INCH == Num(254, 100)
_INCH_PER_FOOT == Int2(12)
_METERS_PER_FEET == Div(Mul(_CM_PER_INCH, _INCH_PER_FOOT), Int2(100))
_FEET_PER_MINUTE_TO_METERS_PER_SECOND == Mul(_METERS_PER_FEET, Int2(60))

\* ------------------------------------------------------------ Aircraft
TelemetryItem(value, timestamp) == [value |-> value, timestamp |-> timestamp]

TrackFields ==
    {"latitude", "longitude", "altitude", "track_angle", "h_speed", "v_speed", "heading"}

empty_track == [f \in TrackFields |-> TelemetryItem(None, None)]

FlightInfo(callsign, registration, origin, destination, flight, squawk_code, model) ==
    [callsign |-> callsign, registration |-> registration, origin |-> origin,
     destination |-> destination, flight |-> flight, squawk_code |-> squawk_code,
     model |-> model]

empty_flight_info == FlightInfo(None, None, None, None, None, None, None)

\* Aircraft.__init__
Aircraft ==
    [last_heard_time |-> None, track |-> empty_track, flight_info |-> empty_flight_info]

\* d[i] of the source (0-based).
At(d, i) == d[i + 1]

\* The highest raw index receive reads; a shorter list raises IndexError.
LastIndexRead == 16

\* Variant of PositionUpdate that stores latitude and longitude each on its own.
PositionUpdate_Independent(latitude, longitude, timestamp) ==
    (IF Truthy(latitude) THEN {<<"latitude", TelemetryItem(latitude, timestamp)>>} ELSE {})
        \cup
    (IF Truthy(longitude) THEN {<<"longitude", TelemetryItem(longitude, timestamp)>>} ELSE {})

\* if latitude and longitude: new.update(latitude=..., longitude=...)
PositionUpdate(latitude, longitude, timestamp) ==
    IF Truthy(latitude) /\ Truthy(longitude)
    THEN {<<"latitude", TelemetryItem(latitude, timestamp)>>,
          <<"longitude", TelemetryItem(longitude, timestamp)>>}
    ELSE {}

\* The `new` dict built by receive: the Track fields the record updates.
NewTrack(d) ==
    LET timestamp == At(d, 10)
        altitude == At(d, 4)
        bearing == At(d, 3)
        speed == At(d, 5)
        rate_of_climb == At(d, 15)
        pos == PositionUpdate(At(d, 1), At(d, 2), timestamp)
        alt == IF Truthy(altitude)
               THEN {<<"altitude", TelemetryItem(Mul(altitude, _METERS_PER_FEET), timestamp)>>}
               ELSE {}
        hs == IF Truthy(speed)
              THEN {<<"h_speed", TelemetryItem(Mul(speed, _KNOTS_TO_METERS_PER_SECOND), timestamp)>>}
              ELSE {}
        hd == IF Truthy(bearing)
              THEN {<<"heading", TelemetryItem(bearing, timestamp)>>,
                    <<"track_angle", TelemetryItem(bearing, timestamp)>>}
              ELSE {}
        vs == IF Truthy(rate_of_climb)
              THEN {<<"v_speed", TelemetryItem(Mul(rate_of_climb, _FEET_PER_MINUTE_TO_METERS_PER_SECOND), timestamp)>>}
              ELSE {}
    IN  pos \cup alt \cup hs \cup hd \cup vs

\* The exception receive raises on record d, "" when it raises none: a read
\* d[i] past the end of the list, or a str/None operand of a conversion.
ReceiveError(d) ==
    IF Len(d) <= LastIndexRead THEN "IndexError"
    ELSE IF \/ Truthy(At(d, 4)) /\ ~CanMul(At(d, 4))
            \/ Truthy(At(d, 5)) /\ ~CanMul(At(d, 5))
            \/ Truthy(At(d, 15)) /\ ~CanMul(At(d, 15))
         THEN "TypeError"
         ELSE ""

\* Track._replace(**new)
Replace(track, new) ==
    [f \in TrackFields |->
        IF \E p \in new : p[1] = f
        THEN (CHOOSE p \in new : p[1] = f)[2]
        ELSE track[f]]

\* Variant of AssignTrack that builds the track from empty_track.
AssignTrack_FromEmpty(self, d) == [self EXCEPT !.track = Replace(empty_track, NewTrack(d))]

\* if new: self.__track = self.__track._replace(**new)
AssignTrack(self, d) ==
    LET new == NewTrack(d)
    IN  [self EXCEPT !.track = IF new # {} THEN Replace(self.track, new) ELSE self.track]

\* Variant of AssignLastHeard that never moves the time backward.
AssignLastHeard_Monotonic(self, d) ==
    IF /\ self.last_heard_time.t = "num"
       /\ At(d, 10).t = "num"
       /\ At(d, 10).n * self.last_heard_time.d < self.last_heard_time.n * At(d, 10).d
    THEN self
    ELSE [self EXCEPT !.last_heard_time = At(d, 10)]

\* self.__last_heard_time = timestamp
AssignLastHeard(self, d) == [self EXCEPT !.last_heard_time = At(d, 10)]

\* A field of the new flight info that keeps the old value when the record has none.
KeepOld(old, new) == IF new = None THEN old ELSE new

\* Variant of AssignFlightInfo that merges field by field.
AssignFlightInfo_KeepOld(self, d) ==
    [self EXCEPT !.flight_info =
        FlightInfo(KeepOld(@.callsign, At(d, 16)), KeepOld(@.registration, At(d, 9)),
                   KeepOld(@.origin, At(d, 11)), KeepOld(@.destination, At(d, 12)),
                   KeepOld(@.flight, At(d, 13)), KeepOld(@.squawk_code, At(d, 6)),
                   KeepOld(@.model, At(d, 8)))]

\* self.__flight_info = FlightInfo(callsign=callsign, ...)
AssignFlightInfo(self, d) ==
    [self EXCEPT !.flight_info = FlightInfo(At(d, 16), At(d, 9), At(d, 11), At(d, 12),
                                            At(d, 13), At(d, 6), At(d, 8))]

\* self.state_changed(): the object as it is, and as the call found it.
Notify(self) == [self |-> self, observed |-> << self >>]

\* state_changed() called before the flight info is assigned.
NotifyThenAssignFlightInfo(self, d) ==
    [self |-> AssignFlightInfo(self, d), observed |-> << self >>]

\* Variant of Assignments that notifies before the last assignment.
Assignments_NotifyEarly(self, d) ==
    NotifyThenAssignFlightInfo(AssignLastHeard(AssignTrack(self, d), d), d)

\* The statements of receive that assign to self, in source order, and then
\* self.state_changed(): the object afterwards and the object as each
\* state_changed() call found it.
Assignments(self, d) ==
    Notify(AssignFlightInfo(AssignLastHeard(AssignTrack(self, d), d), d))

\* receive returning normally after the assignments.
Returned(done) ==
    [self |-> done.self, exc |-> "", state_changed |-> Len(done.observed),
     observed |-> done.observed]

\* receive raising exc before any assignment.
Raised(self, exc) == [self |-> self, exc |-> exc, state_changed |-> 0, observed |-> <<>>]

\* Variant of receive that assigns the last-heard time before converting.
receive_AssignsBeforeConverting(self, d) ==
    IF ReceiveError(d) = "TypeError" THEN Raised(AssignLastHeard(self, d), "TypeError")
    ELSE IF ReceiveError(d) # "" THEN Raised(self, ReceiveError(d))
    ELSE Returned(Assignments(self, d))

\* Aircraft.receive on record d: the object afterwards, the exception raised
\* ("" for none), the number of state_changed() notifications and what each
\* found.  Every read and conversion precedes the first assignment to self.
receive(self, d) ==
    IF ReceiveError(d) # ""
    THEN Raised(self, ReceiveError(d))
    ELSE Returned(Assignments(self, d))

\* Variant of is_interesting that looks at the flight info only.
is_interesting_FlightOnly(self) ==
    \/ self.flight_info.callsign # None
    \/ self.flight_info.registration # None

\* Variant of is_interesting that does not look at the callsign.
is_interesting_NoCallsign(self) ==
    \/ self.track.latitude.value # None
    \/ self.track.longitude.value # None
    \/ self.flight_info.registration # None

is_interesting(self) ==
    \/ self.track.latitude.value # None
    \/ self.track.longitude.value # None
    \/ self.flight_info.callsign # None
    \/ self.flight_info.registration # None

\* A Python bool.
Bool(b) == [t |-> "bool", n |-> IF b THEN 1 ELSE 0, d |-> 1, s |-> ""]

\* Variant of get_object_expiry that takes a missing time for zero.
get_object_expiry_NoneAsZero(self) ==
    IF self.last_heard_time.t = "num"
    THEN [value |-> Add(self.last_heard_time, Int2(drop_unheard_timeout_seconds)), exc |-> ""]
    ELSE [value |-> Int2(drop_unheard_timeout_seconds), exc |-> ""]

\* Aircraft.get_object_expiry: the value returned and the exception raised
\* ("" for none); None + 60 and str + 60 raise TypeError.
get_object_expiry(self) ==
    IF self.last_heard_time.t = "num"
    THEN [value |-> Add(self.last_heard_time, Int2(drop_unheard_timeout_seconds)), exc |-> ""]
    ELSE [value |-> None, exc |-> "TypeError"]


\* ------------------------------------------------------------ feed inputs
ListEntry(key, d) == [key |-> key, is_list |-> TRUE, value |-> d]
\* An entry whose value is not a list (a number or an object of the feed's
\* metadata).
OtherEntry(key) == [key |-> key, is_list |-> FALSE, value |-> <<>>]

\* A received body: parse = "error" when json.loads raises, "other" when it
\* yields a value that is not an object, "object" with the entries in
\* iteration order otherwise.
JsonObject(items) == [parse |-> "object", items |-> items]
Unparsable == [parse |-> "error", items |-> <<>>]
NotAnObject == [parse |-> "other", items |-> <<>>]

\* A complete record: position, altitude, speed, bearing, climb and flight data.
RecFull ==
    << Int2(0), Int2(40), Int2(-70), Int2(90), Int2(30000), Int2(450), Str("1200"),
       Int2(0), Str("B738"), Str("N1"), Int2(1620000000), Str("JFK"), Str("LAX"),
       Str("UAL123"), Int2(0), Int2(640), Str("UAL1"), Int2(0) >>
\* A later record carrying only a position.
RecSparse ==
    << Int2(0), Int2(41), Int2(-71), Int2(0), Int2(0), Int2(0), None,
       Int2(0), None, None, Int2(1620000008), None, None,
       None, Int2(0), Int2(0), None, Int2(0) >>
\* A truncated record.
RecShort == << Int2(0), Int2(40), Int2(-70) >>
\* An earlier record with a callsign and a squawk code but no position.
RecCallsignOnly ==
    << Int2(0), Int2(0), Int2(0), Int2(0), Int2(0), Int2(0), Str("7000"),
       Int2(0), None, None, Int2(1619999990), None, None,
       None, Int2(0), Int2(0), Str("UAL1"), Int2(0) >>
\* A record with a timestamp and nothing else (null, zero and empty fields).
RecEmpty ==
    << Int2(0), None, None, Int2(0), Str(""), Str(""), None,
       Int2(0), None, None, Int2(1620000016), None, None,
       None, Int2(0), None, None, Int2(0) >>
\* A record with a latitude, a zero longitude and a registration.
RecLatOnly ==
    << Int2(0), Int2(52), Int2(0), Int2(180), Int2(0), Int2(0), None,
       Int2(0), None, Str("N2"), Int2(1620000024), None, None,
       None, Int2(0), Int2(-1), None, Int2(0) >>
\* A record with a position and no timestamp.
RecNoTimestamp ==
    << Int2(0), Int2(42), Int2(-72), Int2(0), Int2(1000), Int2(0), None,
       Int2(0), None, None, None, None, None,
       None, Int2(0), Int2(0), None, Int2(0) >>
\* A record whose altitude is a string.
RecBadType ==
    << Int2(0), Int2(43), Int2(-73), Int2(270), Str("high"), Int2(300), None,
       Int2(0), Str("A320"), Str("N3"), Int2(1620000032), None, None,
       None, Int2(0), Int2(0), Str("DLH4"), Int2(0) >>

\* The records handed to Aircraft.receive in AircraftSpec.
Records ==
    { RecFull, RecSparse, RecShort, RecCallsignOnly, RecEmpty, RecLatOnly,
      RecNoTimestamp, RecBadType }

Bodies ==
    { Unparsable,
      NotAnObject,
      JsonObject(<< OtherEntry("full_count"), OtherEntry("version") >>),
      JsonObject(<< OtherEntry("full_count"), ListEntry("abc123", RecFull) >>),
      JsonObject(<< ListEntry("abc123", RecSparse), ListEntry("def456", RecFull) >>),
      JsonObject(<< ListEntry("bad001", RecShort), ListEntry("abc123", RecSparse) >>) }

\* ------------------------------------------------------------ state
VARIABLES
    loop,             \* self.__loop: 0 for None, else an index into looping_calls
    looping_calls,    \* LoopingCall.running of every LoopingCall created so far
    device_contexts,  \* len(self.__device_contexts)
    issued,           \* requests issued so far
    inflight,         \* requests awaiting their response / their body
    peak,             \* the most requests that were in flight at once
    objects,          \* the telemetry store the contexts deliver to
    last,             \* the operation that ran last and how it ended
    last_body,        \* the body handed to process by the last step
    sink_calls,       \* the output_message calls made by the last step
    aircraft,         \* an Aircraft whose methods are called directly
    before,           \* that Aircraft as it was before the last call
    call,             \* the last method call on it and what it returned
    merges            \* the records it has merged so far

client_vars ==
    << loop, looping_calls, device_contexts, issued, inflight, peak, objects, last,
       last_body, sink_calls >>

aircraft_vars == << aircraft, before, call, merges >>

vars == << client_vars, aircraft_vars >>

\* op: the method; d: the record passed to receive; exc: the exception raised
\* ("" none); value: the value returned; observed: the object as each
\* state_changed() call of this method call found it.
Call(op, d, exc, value, observed) ==
    [op |-> op, d |-> d, exc |-> exc, value |-> value, observed |-> observed]

\* Aircraft(object_id), no method called yet.
AircraftInit ==
    /\ aircraft = Aircraft
    /\ before = Aircraft
    /\ call = Call("__init__", <<>>, "", None, <<>>)
    /\ merges = 0

NoBody == [parse |-> "none", items |-> <<>>]

\* op: the entry point; ret: the exception raised to its caller ("" none);
\* tick: what __send_request did in this step; fetch: how a request ended;
\* printed: the exception the errback chain logged ("" none).
Event(op, ret, tick, fetch, printed) ==
    [op |-> op, ret |-> ret, tick |-> tick, fetch |-> fetch, printed |-> printed]

get_enabled == loop # 0

InFlight == inflight.response + inflight.body

Init ==
    /\ loop = 0
    /\ looping_calls = <<>>
    /\ device_contexts = 0
    /\ issued = 0
    /\ inflight = [response |-> 0, body |-> 0]
    /\ peak = 0
    /\ objects = [i \in {} |-> Aircraft]
    /\ last = Event("init", "", "none", "none", "")
    /\ last_body = NoBody
    /\ sink_calls = <<>>
    /\ AircraftInit

\* ------------------------------------------------------------ dispatch
\* A device context's output_message: the telemetry store looks the object
\* up by id, creating it on first sight, and hands it the message.
output_message(store, object_id, d) ==
    LET obj == IF object_id \in DOMAIN store THEN store[object_id] ELSE Aircraft
        r == receive(obj, d)
    IN  [objects |-> [i \in DOMAIN store \cup {object_id} |->
                        IF i = object_id THEN r.self ELSE store[i]],
         exc |-> r.exc]

\* A dispatch pass in progress: the store, the output_message calls made so
\* far and the exception that ended the pass ("" while it is running).
Pass(store, calls, exc) == [objects |-> store, calls |-> calls, exc |-> exc]

\* for c in self.__device_contexts: c.output_message(AircraftWrapper(...))
RECURSIVE ForContexts(_, _, _, _)
ForContexts(c, nctx, e, st) ==
    IF c > nctx \/ st.exc # "" THEN st
    ELSE LET r == output_message(st.objects, e.key, e.value)
         IN  ForContexts(c + 1, nctx, e,
                 Pass(r.objects, Append(st.calls, [context |-> c, object_id |-> e.key]), r.exc))

\* for object_id, aircraft in six.iteritems(data): an exception leaves the loop.
RECURSIVE ForEntries(_, _, _)
ForEntries(items, nctx, st) ==
    IF items = <<>> \/ st.exc # "" THEN st
    ELSE IF ~Head(items).is_list THEN ForEntries(Tail(items), nctx, st)
    ELSE ForEntries(Tail(items), nctx, ForContexts(1, nctx, Head(items), st))

\* Variant of process: an unparsable body is taken for an empty feed and the
\* tracked objects are dropped.
process_EmptyOnError(body, store, nctx) ==
    IF body.parse = "error" THEN Pass([i \in {} |-> Aircraft], <<>>, "")
    ELSE IF body.parse = "other" THEN Pass(store, <<>>, "AttributeError")
    ELSE ForEntries(body.items, nctx, Pass(store, <<>>, ""))

\* The callback process(body) with nctx contexts attached.
process(body, store, nctx) ==
    IF body.parse = "error" THEN Pass(store, <<>>, "ValueError")
    ELSE IF body.parse = "other" THEN Pass(store, <<>>, "AttributeError")
    ELSE ForEntries(body.items, nctx, Pass(store, <<>>, ""))

\* ------------------------------------------------------------ polling
\* Variant of SendOutcomes without the check of self.__device_contexts.
SendOutcomes_NoGuard ==
    {"raised"} \cup (IF issued < MaxRequests THEN {"issued"} ELSE {})

\* What one call of __send_request can do: return at once without contexts;
\* otherwise raise while building or issuing the request, or issue it.
SendOutcomes ==
    IF device_contexts = 0 THEN {"skipped"}
    ELSE {"raised"} \cup (IF issued < MaxRequests THEN {"issued"} ELSE {})

\* The effect of __send_request with outcome o on the requests in flight.
send_request(o) ==
    /\ o \in SendOutcomes
    /\ IF o = "issued"
       THEN /\ issued' = issued + 1
            /\ inflight' = [inflight EXCEPT !.response = @ + 1]
            /\ peak' = IF InFlight + 1 > peak THEN InFlight + 1 ELSE peak
       ELSE UNCHANGED << issued, inflight, peak >>

\* The exception LoopingCall's errback hands to addErrback(print).
Printed(o) == IF o = "raised" THEN "Exception" ELSE ""

\* set_enabled(True) with no loop: LoopingCall(...).start(_POLLING_INTERVAL)
\* calls __send_request at once; if that raises the call stops running.
StartLoop(o) ==
    /\ Len(looping_calls) < MaxLoops
    /\ send_request(o)
    /\ looping_calls' = Append(looping_calls, o # "raised")
    /\ loop' = Len(looping_calls) + 1
    /\ last' = Event("set_enabled_true", "", o, "none", Printed(o))

\* self.__loop.stop(); self.__loop = None.  stop() asserts that the call is
\* running, so on a call that has ended the assignment is not reached.
StopLoop(op) ==
    /\ IF looping_calls[loop]
       THEN /\ looping_calls' = [looping_calls EXCEPT ![loop] = FALSE]
            /\ loop' = 0
            /\ last' = Event(op, "", "none", "none", "")
       ELSE /\ UNCHANGED << looping_calls, loop >>
            /\ last' = Event(op, "AssertionError", "none", "none", "")
    /\ UNCHANGED << issued, inflight, peak >>

NoOp(op) ==
    /\ last' = Event(op, "", "none", "none", "")
    /\ UNCHANGED << loop, looping_calls, issued, inflight, peak >>

\* Variant of StartGuard without the check of self.__loop.
StartGuard_Always(enabled) == enabled

\* if enabled and not self.__loop
StartGuard(enabled) == enabled /\ loop = 0
\* elif not enabled and self.__loop
StopGuard(enabled) == ~enabled /\ loop # 0

set_enabled(enabled) ==
    /\ IF StartGuard(enabled) THEN \E o \in SendOutcomes : StartLoop(o)
       ELSE IF StopGuard(enabled) THEN StopLoop("set_enabled_false")
       ELSE NoOp(IF enabled THEN "set_enabled_true" ELSE "set_enabled_false")
    /\ last_body' = NoBody
    /\ sink_calls' = <<>>
    /\ UNCHANGED << device_contexts, objects, aircraft_vars >>

close ==
    /\ IF loop # 0 THEN StopLoop("close") ELSE NoOp("close")
    /\ last_body' = NoBody
    /\ sink_calls' = <<>>
    /\ UNCHANGED << device_contexts, objects, aircraft_vars >>

attach_context ==
    /\ device_contexts < MaxContexts
    /\ device_contexts' = device_contexts + 1
    /\ last' = Event("attach_context", "", "none", "none", "")
    /\ last_body' = NoBody
    /\ sink_calls' = <<>>
    /\ UNCHANGED << loop, looping_calls, issued, inflight, peak, objects, aircraft_vars >>

\* Variant of MayFire for a __send_request that returns its deferred: the
\* LoopingCall then waits for the request before it schedules the next call.
MayFire_Waits(l) == looping_calls[l] /\ InFlight = 0

\* Whether the reactor may call LoopingCall l again: it is running, and since
\* __send_request returns None it never waits for a request in flight.
MayFire(l) == looping_calls[l]

\* The reactor calls a running LoopingCall: one __send_request; an exception
\* ends the call (running = False) and goes to the errback print.
Tick(l) ==
    /\ MayFire(l)
    /\ \E o \in SendOutcomes :
          /\ send_request(o)
          /\ looping_calls' = [looping_calls EXCEPT ![l] = (o # "raised")]
          /\ last' = Event("tick", "", o, "none", Printed(o))
    /\ last_body' = NoBody
    /\ sink_calls' = <<>>
    /\ UNCHANGED << loop, device_contexts, objects, aircraft_vars >>

\* The request's deferred fires: with the response (readBody then waits for
\* the body) or with a failure, which skips readBody and process and is printed.
ResponseArrives(ok) ==
    /\ inflight.response > 0
    /\ inflight' = [response |-> inflight.response - 1,
                    body |-> inflight.body + (IF ok THEN 1 ELSE 0)]
    /\ last' = Event("response", "", "none", IF ok THEN "none" ELSE "failed",
                     IF ok THEN "" ELSE "Failure")
    /\ last_body' = NoBody
    /\ sink_calls' = <<>>
    /\ UNCHANGED << loop, looping_calls, device_contexts, issued, peak, objects, aircraft_vars >>

\* readBody fails: process is skipped and the failure is printed.
BodyFails ==
    /\ inflight.body > 0
    /\ inflight' = [inflight EXCEPT !.body = @ - 1]
    /\ last' = Event("body", "", "none", "failed", "Failure")
    /\ last_body' = NoBody
    /\ sink_calls' = <<>>
    /\ UNCHANGED << loop, looping_calls, device_contexts, issued, peak, objects, aircraft_vars >>

\* readBody delivers the body: process(body) runs, and what it raises is printed.
BodyArrives(body) ==
    /\ inflight.body > 0
    /\ inflight' = [inflight EXCEPT !.body = @ - 1]
    /\ LET r == process(body, objects, device_contexts)
       IN  /\ objects' = r.objects
           /\ sink_calls' = r.calls
           /\ last' = Event("body", "", "none",
                            IF r.exc = "" THEN "processed" ELSE "raised", r.exc)
    /\ last_body' = body
    /\ UNCHANGED << loop, looping_calls, device_contexts, issued, peak, aircraft_vars >>

Next ==
    \/ \E enabled \in BOOLEAN : set_enabled(enabled)
    \/ close
    \/ attach_context
    \/ \E l \in 1..Len(looping_calls) : Tick(l)
    \/ \E ok \in BOOLEAN : ResponseArrives(ok)
    \/ BodyFails
    \/ \E body \in Bodies : BodyArrives(body)

Spec == Init /\ [][Next]_vars

\* ------------------------------------------------------------ Aircraft calls
\* The effect of a receive call that ended as r says.
ReceiveStep(r, d) ==
    /\ aircraft' = r.self
    /\ before' = aircraft
    /\ call' = Call("receive", d, r.exc, None, r.observed)
    /\ merges' = IF r.exc = "" THEN merges + 1 ELSE merges

\* aircraft.receive(AircraftWrapper(object_id, d))
Receive(d) ==
    /\ merges < MaxMerges
    /\ ReceiveStep(receive(aircraft, d), d)
    /\ UNCHANGED client_vars

\* The effect of a getter that returned r.value or raised r.exc.
GetterStep(op, r) ==
    /\ call' = Call(op, <<>>, r.exc, r.value, <<>>)
    /\ before' = aircraft
    /\ UNCHANGED << aircraft, merges >>

\* aircraft.get_object_expiry()
GetObjectExpiry ==
    /\ GetterStep("get_object_expiry", get_object_expiry(aircraft))
    /\ UNCHANGED client_vars

\* aircraft.is_interesting()
IsInteresting ==
    /\ GetterStep("is_interesting", [value |-> Bool(is_interesting(aircraft)), exc |-> ""])
    /\ UNCHANGED client_vars

AircraftNext ==
    \/ \E d \in Records : Receive(d)
    \/ GetObjectExpiry
    \/ IsInteresting

\* One Aircraft, as the telemetry store holds it, under any sequence of calls.
AircraftSpec == Init /\ [][AircraftNext]_vars

\* ------------------------------------------------------------ properties
\* The LoopingCalls the reactor still calls.
ActiveTimers == {l \in 1..Len(looping_calls) : looping_calls[l]}

\* C1: at most one periodic timer is active at any time, and set_enabled(True)
\* called while a loop is held starts no timer, issues nothing and leaves the
\* existing LoopingCall as it was.
C1_AtMostOneTimer ==
    /\ [](Cardinality(ActiveTimers) <= 1)
    /\ [][(last'.op = "set_enabled_true" /\ loop # 0)
            => /\ looping_calls' = looping_calls
               /\ loop' = loop
               /\ issued' = issued]_vars

\* set_enabled(True) was just called on a controller whose timer is active.
C1_Witness ==
    /\ last.op = "set_enabled_true"
    /\ last.tick = "none"
    /\ loop # 0
    /\ looping_calls[loop]
    /\ Cardinality(ActiveTimers) = 1

\* A poll that failed: the request could not be issued, the response or the
\* body did not arrive, or the body was not JSON.
PollFailed(e, body) == e.tick = "raised" \/ e.fetch = "failed" \/ body.parse = "error"

\* C2: after a failed poll the controller is still Running, its timer is still
\* active (so the next tick comes), and no exception left the handler.
C2_FailedPollKeepsPolling ==
    PollFailed(last, last_body) => /\ last.ret = ""
                        /\ (get_enabled => looping_calls[loop])

\* The entries of a body whose value is a list.
ListKeys(body) == {body.items[i].key : i \in {j \in 1..Len(body.items) : body.items[j].is_list}}

\* The output_message calls of the last step for context c and object id.
CallsFor(c, id) ==
    {j \in 1..Len(sink_calls) : sink_calls[j].context = c /\ sink_calls[j].object_id = id}

\* C3: when a response has been processed, every list entry of it was
\* delivered to the sink, whatever the sink raised for another entry.
C3_EveryRecordDelivered ==
    (last.op = "body" /\ last_body.parse = "object" /\ device_contexts > 0)
        => \A id \in ListKeys(last_body) : CallsFor(1, id) # {}

\* C4: set_enabled(False) raises nothing and leaves the controller Stopped with
\* no timer active, and while Stopped no request is issued except by
\* set_enabled(True).
C4_DisableStops ==
    /\ [](last.op = "set_enabled_false"
            => last.ret = "" /\ ~get_enabled /\ ActiveTimers = {})
    /\ [][(~get_enabled /\ issued' # issued) => last'.op = "set_enabled_true"]_vars

\* C5: close() raises nothing and leaves the controller Stopped with no timer
\* active, whatever the state it is called in.
C5_CloseStops ==
    last.op = "close" => last.ret = "" /\ ~get_enabled /\ ActiveTimers = {}

\* C6: a request is issued only with a context attached, and a call of
\* __send_request without one issues nothing and dispatches nothing.
C6_NoContextNoRequest ==
    [][/\ issued' # issued => device_contexts > 0
       /\ (last'.tick # "none" /\ device_contexts = 0)
            => /\ last'.tick = "skipped"
               /\ inflight' = inflight
               /\ objects' = objects
               /\ sink_calls' = <<>>]_vars

\* A tick has just fired without any context attached.
C6_Witness ==
    /\ last.op = "tick"
    /\ last.tick = "skipped"
    /\ device_contexts = 0
    /\ issued = 0

\* A fetch that failed: no response, no body, or a body that is not JSON.
FetchFailed(e, body) == e.fetch = "failed" \/ body.parse = "error"

\* C7: a failed fetch leaves every tracked object as it was and calls no sink.
C7_FailedFetchChangesNothing ==
    [][FetchFailed(last', last_body') => objects' = objects /\ sink_calls' = <<>>]_vars

\* An unparsable body has just arrived while an object is tracked.
C7_Witness ==
    /\ last.op = "body"
    /\ last_body.parse = "error"
    /\ last.printed = "ValueError"
    /\ "abc123" \in DOMAIN objects
    /\ objects["abc123"].last_heard_time # None

\* C8: for a parsed response object the sink was called exactly once per
\* attached context for every list entry and never for another entry, and a
\* response without list entries raises nothing.
C8_OncePerContextPerRecord ==
    (last.op = "body" /\ last_body.parse = "object")
        => /\ \A i \in 1..Len(last_body.items) : \A c \in 1..device_contexts :
                Cardinality(CallsFor(c, last_body.items[i].key))
                    = IF last_body.items[i].is_list THEN 1 ELSE 0
           /\ Len(sink_calls) = device_contexts * Cardinality(ListKeys(last_body))
           /\ (ListKeys(last_body) = {} => last.printed = "")

\* A tick of LoopingCall l that issues a request.
TickIssues(l) == Tick(l) /\ issued' = issued + 1

\* C9: a running LoopingCall with a context attached can fire and issue its
\* request however many earlier requests are still in flight.
C9_TicksIndependent ==
    \A l \in 1..Len(looping_calls) :
        (looping_calls[l] /\ device_contexts > 0 /\ issued < MaxRequests)
            => ENABLED TickIssues(l)

\* A tick has just issued a request while an earlier one was still in flight.
C9_Witness ==
    /\ last.op = "tick"
    /\ last.tick = "issued"
    /\ InFlight >= 2

\* The object with this id after the record d was delivered by n contexts.
RECURSIVE MergedTimes(_, _, _)
MergedTimes(obj, d, n) == IF n = 0 THEN obj ELSE MergedTimes(receive(obj, d).self, d, n - 1)

\* C10: when fetches have overlapped and a response carries a record for an
\* object an earlier response already updated, that record is merged too: after
\* the response is processed the object is the sequential merge of the record
\* onto the state the earlier arrival left.
C10_SequentialMerge ==
    [][(last'.op = "body" /\ last_body'.parse = "object" /\ peak >= 2)
        => \A i \in 1..Len(last_body'.items) :
              LET id == last_body'.items[i].key
              IN  (/\ last_body'.items[i].is_list
                   /\ id \in DOMAIN objects
                   /\ objects[id].last_heard_time # None)
                    => /\ id \in DOMAIN objects'
                       /\ objects'[id] = MergedTimes(objects[id], last_body'.items[i].value,
                                                     device_contexts)]_vars

\* ---- Properties of Aircraft (AircraftSpec) ----

\* The last call was a receive that returned: a merge of the record call.d.
Merged == call.op = "receive" /\ call.exc = ""

\* The index of the raw record each Track field is taken from.
RawIndex(f) ==
    CASE f = "latitude" -> 1
      [] f = "longitude" -> 2
      [] f = "heading" -> 3
      [] f = "track_angle" -> 3
      [] f = "altitude" -> 4
      [] f = "h_speed" -> 5
      [] f = "v_speed" -> 15

\* The Track fields stored as they come, without a unit conversion.
Unconverted == {"latitude", "longitude", "heading", "track_angle"}

\* The field f of the object holds the value of the merged record, stamped
\* with the record's timestamp.
Overwritten(f) ==
    /\ aircraft.track[f].timestamp = At(call.d, 10)
    /\ aircraft.track[f].value # None
    /\ f \in Unconverted => aircraft.track[f].value = At(call.d, RawIndex(f))

\* No Track field that was set before the last call is unset after it.
NeverReset == \A f \in TrackFields : before.track[f].value # None => aircraft.track[f].value # None

\* C11: for every merge, each Track field whose mapped raw value in the record
\* is falsy keeps exactly the TelemetryItem it had before the merge, and a
\* Track field that was set is never reset to unset.
C11_SparseUpdate ==
    Merged =>
        /\ \A f \in TrackFields :
              ~Truthy(At(call.d, RawIndex(f))) => aircraft.track[f] = before.track[f]
        /\ NeverReset

\* A record with nothing to say was merged into an object whose position and
\* altitude were set, and they are kept.
C11_Witness ==
    /\ Merged
    /\ call.d = RecEmpty
    /\ before.track.altitude.value # None
    /\ before.track.latitude.value # None
    /\ aircraft.track = before.track

\* C12 as stated: whether a merge updates a Track field depends only on that
\* field's own raw value; each field whose raw value is truthy is overwritten
\* with the record's value and timestamp, whatever the other indices hold.
C12_OwnValueOnly ==
    Merged =>
        \A f \in TrackFields : Truthy(At(call.d, RawIndex(f))) => Overwritten(f)

\* The raw values that decide whether the merge updates the field f.
Updates(f) ==
    IF f \in {"latitude", "longitude"}
    THEN Truthy(At(call.d, 1)) /\ Truthy(At(call.d, 2))
    ELSE Truthy(At(call.d, RawIndex(f)))

\* C12 amended: latitude and longitude are overwritten together, exactly when
\* both raw values are truthy, and both are kept otherwise; every other Track
\* field is overwritten exactly when its own raw value is truthy.
C12_PositionPaired ==
    Merged =>
        \A f \in TrackFields :
            IF Updates(f) THEN Overwritten(f) ELSE aircraft.track[f] = before.track[f]

\* A record with a latitude and a zero longitude was merged: the heading is
\* taken from it, the latitude is not.
C12_Witness ==
    /\ Merged
    /\ call.d = RecLatOnly
    /\ Truthy(At(call.d, 1))
    /\ aircraft.track.latitude = before.track.latitude
    /\ aircraft.track.heading = TelemetryItem(At(call.d, 3), At(call.d, 10))

\* C13: after a merge all seven FlightInfo fields equal the values at indices
\* 16, 9, 11, 12, 13, 6, 8 of the merged record, so that a field set earlier
\* becomes null when the record carries null there; Track fields set earlier
\* are kept.
C13_FlightInfoReplaced ==
    Merged =>
        /\ aircraft.flight_info.callsign = At(call.d, 16)
        /\ aircraft.flight_info.registration = At(call.d, 9)
        /\ aircraft.flight_info.origin = At(call.d, 11)
        /\ aircraft.flight_info.destination = At(call.d, 12)
        /\ aircraft.flight_info.flight = At(call.d, 13)
        /\ aircraft.flight_info.squawk_code = At(call.d, 6)
        /\ aircraft.flight_info.model = At(call.d, 8)
        /\ NeverReset

\* A callsign set earlier became null at a merge that kept the altitude.
C13_Witness ==
    /\ Merged
    /\ before.flight_info.callsign # None
    /\ aircraft.flight_info.callsign = None
    /\ before.track.altitude.value # None
    /\ aircraft.track.altitude = before.track.altitude

\* One of the four fields is_interesting looks at is non-null.
Identified(self) ==
    \/ self.track.latitude.value # None
    \/ self.track.longitude.value # None
    \/ self.flight_info.callsign # None
    \/ self.flight_info.registration # None

\* The latitude or the longitude of the object has been set.
HasPosition(self) ==
    \/ self.track.latitude.value # None
    \/ self.track.longitude.value # None

\* C14 as stated: is_interesting() becomes true at the first merge after which
\* any of latitude, longitude, callsign or registration is non-null, and stays
\* true after every later merge.
C14_StaysInteresting ==
    /\ Merged => (is_interesting(aircraft) <=> Identified(aircraft))
    /\ (call.op = "receive" /\ is_interesting(before)) => is_interesting(aircraft)

\* C14 amended: is_interesting() becomes true at the first merge after which
\* any of the four fields is non-null; it stays true after every later merge
\* once the latitude or the longitude has been set; while neither has been
\* set it is true after a merge exactly when the record merged carries a
\* callsign or a registration.
C14_InterestingWhilePositioned ==
    /\ Merged => (is_interesting(aircraft) <=> Identified(aircraft))
    /\ (call.op = "receive" /\ HasPosition(before)) => is_interesting(aircraft)
    /\ (Merged /\ ~HasPosition(aircraft))
          => (is_interesting(aircraft) <=> (At(call.d, 16) # None \/ At(call.d, 9) # None))

\* An object that was interesting by its callsign alone, with no position
\* set, stopped being interesting at a merge.
C14_Witness ==
    /\ Merged
    /\ is_interesting(before)
    /\ ~HasPosition(before)
    /\ before.flight_info.callsign # None
    /\ ~is_interesting(aircraft)

\* C15: in every reachable state of the object, also before any merge,
\* is_interesting() returns true exactly when the Track latitude value, the
\* Track longitude value, the callsign or the registration is non-null.
C15_InterestingIff ==
    call.op = "is_interesting" =>
        /\ call.exc = ""
        /\ call.value = Bool(Identified(aircraft))
        /\ aircraft = before

\* is_interesting() returned true for an object known by its callsign only.
C15_Witness ==
    /\ call.op = "is_interesting"
    /\ call.value = Bool(TRUE)
    /\ ~HasPosition(aircraft)
    /\ aircraft.flight_info.callsign # None
    /\ aircraft.flight_info.registration = None

\* A number of seconds plus sixty.
PlusSixty(t) == [t |-> "num", n |-> t.n + 60 * t.d, d |-> t.d, s |-> ""]

\* C16: after one or more merges get_object_expiry() returns the
\* last-heard timestamp plus 60 seconds, without failing.
C16_ExpiryAfterMerge ==
    (call.op = "get_object_expiry" /\ merges >= 1) =>
        /\ call.exc = ""
        /\ aircraft.last_heard_time.t = "num"
        /\ call.value = PlusSixty(aircraft.last_heard_time)

\* C17: get_object_expiry() on an object that never merged a record fails
\* with an error instead of returning a timestamp and leaves the object as
\* it was.
C17_ExpiryBeforeMerge ==
    (call.op = "get_object_expiry" /\ merges = 0) =>
        /\ call.exc # ""
        /\ call.value = None
        /\ aircraft = before
        /\ aircraft = Aircraft

\* The expiry was asked of an object that never merged, and the call failed.
C17_Witness ==
    /\ call.op = "get_object_expiry"
    /\ merges = 0
    /\ call.exc = "TypeError"

\* C18: the last-heard timestamp is null until the first merge, and after
\* every merge it is the timestamp at index 10 of the record just merged,
\* also when that is older than the one held before.
C18_LastHeardIsLatestTimestamp ==
    /\ merges = 0 => aircraft.last_heard_time = None
    /\ Merged => aircraft.last_heard_time = At(call.d, 10)

\* A merge moved the last-heard timestamp backward.
C18_Witness ==
    /\ Merged
    /\ before.last_heard_time.t = "num"
    /\ aircraft.last_heard_time.t = "num"
    /\ aircraft.last_heard_time.n < before.last_heard_time.n
    /\ aircraft.last_heard_time = At(call.d, 10)

\* Metres per second in one foot per minute: 0.00508.
MetersPerSecondPerFootPerMinute == Num(508, 100000)

\* C19: the vertical speed stored by a merge is the record's rate of climb
\* in ft/min converted to metres per second: rate_of_climb x 0.00508.
C19_VerticalSpeedMetric ==
    (Merged /\ Truthy(At(call.d, 15))) =>
        aircraft.track.v_speed.value = Mul(At(call.d, 15), MetersPerSecondPerFootPerMinute)

\* C20: within one merge state_changed is invoked exactly once, and what an
\* observer reads then is the object with the track, the last-heard
\* timestamp and the flight info all assigned from the record merged.
C20_NotifiedOnceWhenComplete ==
    Merged =>
        /\ Len(call.observed) = 1
        /\ call.observed[1] = aircraft
        /\ call.observed[1].last_heard_time = At(call.d, 10)
        /\ call.observed[1].flight_info =
              FlightInfo(At(call.d, 16), At(call.d, 9), At(call.d, 11), At(call.d, 12),
                         At(call.d, 13), At(call.d, 6), At(call.d, 8))
        /\ \A f \in TrackFields : Updates(f) => call.observed[1].track[f].timestamp = At(call.d, 10)

\* A merge changed the track, the last-heard timestamp and the flight info
\* of an object that had merged before, and notified once.
C20_Witness ==
    /\ Merged
    /\ Len(call.observed) = 1
    /\ before.last_heard_time # None
    /\ aircraft.track # before.track
    /\ aircraft.last_heard_time # before.last_heard_time
    /\ aircraft.flight_info # before.flight_info

\* ---- Properties of the client and its LoopingCall, continued ----

\* C21: get_enabled() returns true exactly when a periodic timer is active,
\* also after a tick whose request issuance raised and ended the periodic
\* call, and a set_enabled(False) or close() that follows raises nothing.
C21_EnabledIffTimerActive ==
    /\ get_enabled <=> ActiveTimers # {}
    /\ last.op \in {"set_enabled_false", "close"} => last.ret = ""

\* ---- Properties of Aircraft, continued ----

\* C22: when receive raises while reading or converting a record (too short,
\* or a value that is not a number at a converted index), the track, the
\* flight info and the last-heard timestamp are as before the call and no
\* change notification is emitted.
C22_FailedMergeChangesNothing ==
    (call.op = "receive" /\ ReceiveError(call.d) # "") =>
        /\ call.exc = ReceiveError(call.d)
        /\ aircraft.track = before.track
        /\ aircraft.flight_info = before.flight_info
        /\ aircraft.last_heard_time = before.last_heard_time
        /\ call.observed = <<>>

\* receive raised on a record with a string for the altitude, after the
\* object had merged a record and held a position.
C22_Witness ==
    /\ call.op = "receive"
    /\ call.exc = "TypeError"
    /\ call.d = RecBadType
    /\ merges >= 1
    /\ aircraft.last_heard_time # None
    /\ aircraft.last_heard_time # At(call.d, 10)
    /\ aircraft.track.latitude.value # None

====
